---------------------------- MODULE Spec2Model ----------------------------
(***************************************************************************)
(* Model of Src/Examples/PythonScripting/script.py, the "Autobop" example  *)
(* script: it constructs a TurntableBot, subscribes vote to NewSongStarted *)
(* and, for every new song, calls bot.Vote(Up, callback); callback prints  *)
(* the outcome of the vote.                                                *)
(*                                                                         *)
(* The script and its two functions are translated from the source.  The   *)
(* TurntableBot client (raising NewSongStarted, answering a Vote by        *)
(* invoking its callback) is not part of the script; its behaviour is      *)
(* taken from the interface description and is marked as such below.       *)
(*                                                                         *)
(* An "output line" is the text written by one print statement.            *)
(***************************************************************************)
EXTENDS Naturals, Sequences, FiniteSets

VARIABLES
    pc,         \* the top-level statement the script executes next
    userId,     \* line 12
    userAuth,   \* line 13
    roomId,     \* line 14
    bot,        \* line 25: the client handle
    handlers,   \* bot.NewSongStarted: the subscribed handlers, in order
    songs,      \* number of new-song occurrences raised by the client
    notified,   \* number of invocations of vote(bot, e)
    requests,   \* the bot.Vote calls made so far, in order
    calls,      \* the invocations of callback(json) so far, in order
    output      \* standard output: the lines printed so far, in order

vars == <<pc, userId, userAuth, roomId, bot, handlers, songs, notified,
          requests, calls, output>>

\* Bounds of the model.
MaxSongs == 3   \* new-song occurrences in one run
MaxCalls == 2   \* direct invocations of callback in the callback harness

-----------------------------------------------------------------------------
(* JSON values as the callback sees them.  json[key] on the client's       *)
(* result object yields the token stored under key, or None when the       *)
(* object has no such key.                                                 *)

JBool(b) == [t |-> "bool", b |-> b,     n |-> 0, s |-> ""]
JInt(n)  == [t |-> "int",  b |-> FALSE, n |-> n, s |-> ""]
JStr(s)  == [t |-> "str",  b |-> FALSE, n |-> 0, s |-> s]
None     == [t |-> "None", b |-> FALSE, n |-> 0, s |-> ""]

Result(success, err) == [success |-> success, err |-> err]

GetItem(json, key) == IF key = "success" THEN json.success ELSE json.err

RECURSIVE IntToString(_)
IntToString(n) ==
    IF n < 10 THEN SubSeq("0123456789", n + 1, n + 1)
    ELSE IntToString(n \div 10) \o SubSeq("0123456789", (n % 10) + 1, (n % 10) + 1)

\* token.ToString(): the text form of a token that is not None.
ToString(v) ==
    CASE v.t = "bool" -> IF v.b THEN "True" ELSE "False"
      [] v.t = "int"  -> IntToString(v.n)
      [] v.t = "str"  -> v.s

\* "%s" % (v): str(v), which for None is the text "None".
FormatS(v) == IF v.t = "None" THEN "None" ELSE ToString(v)


-----------------------------------------------------------------------------
(* The script's two functions, as the effects of one invocation.           *)

VoteOptions == [Up |-> "Up", Down |-> "Down"]

\* An invocation's effects: the lines it prints, the error it ends with
\* ("" when it completes normally) and the bot.Vote calls it makes.
Effects(out, raised, votes) == [out |-> out, raised |-> raised, votes |-> votes]

\* Faulty variants of vote: the wrong option, and the vote cast twice.
vote_down(b, e) ==
    Effects(<<>>, "", <<[option |-> VoteOptions.Down, callback |-> "callback"]>>)

vote_twice(b, e) ==
    Effects(<<>>, "", <<[option |-> VoteOptions.Up, callback |-> "callback"],
                        [option |-> VoteOptions.Up, callback |-> "callback"]>>)

\* def vote(bot, e): bot.Vote(TurntableBot.VoteOptions.Up, callback)
vote(b, e) ==
    Effects(<<>>, "", <<[option |-> VoteOptions.Up, callback |-> "callback"]>>)

\* Faulty variants of callback.
\* err is looked at first: a result that carries an err is reported as failed.
callback_err_first(json) ==
    LET success == GetItem(json, "success") IN
    IF success.t = "None"
    THEN Effects(<<>>, "AttributeError", <<>>)
    ELSE IF ToString(success) = "True" /\ GetItem(json, "err").t = "None"
         THEN Effects(<<"Voted awesome">>, "", <<>>)
         ELSE Effects(<<"Could not vote: " \o FormatS(GetItem(json, "err")) \o ".">>,
                      "", <<>>)

\* The failure line leaves the message out.
callback_no_msg(json) ==
    LET success == GetItem(json, "success") IN
    IF success.t = "None"
    THEN Effects(<<>>, "AttributeError", <<>>)
    ELSE IF ToString(success) = "True"
         THEN Effects(<<"Voted awesome">>, "", <<>>)
         ELSE Effects(<<"Could not vote.">>, "", <<>>)

\* The failure line is built with + instead of %: a token is not a str.
callback_concat(json) ==
    LET success == GetItem(json, "success") IN
    IF success.t = "None"
    THEN Effects(<<>>, "AttributeError", <<>>)
    ELSE IF ToString(success) = "True"
         THEN Effects(<<"Voted awesome">>, "", <<>>)
         ELSE Effects(<<>>, "TypeError", <<>>)

\* The branch is taken on the truth value of the indicator, not on its text.
callback_truthy(json) ==
    LET success == GetItem(json, "success")
        truthy  == CASE success.t = "bool" -> success.b
                     [] success.t = "int"  -> success.n # 0
                     [] success.t = "str"  -> success.s # ""
                     [] success.t = "None" -> FALSE
    IN  IF truthy
        THEN Effects(<<"Voted awesome">>, "", <<>>)
        ELSE Effects(<<"Could not vote: " \o FormatS(GetItem(json, "err")) \o ".">>,
                     "", <<>>)

\* A rejected vote is cast again.
callback_retry(json) ==
    LET success == GetItem(json, "success") IN
    IF success.t = "None"
    THEN Effects(<<>>, "AttributeError", <<>>)
    ELSE IF ToString(success) = "True"
         THEN Effects(<<"Voted awesome">>, "", <<>>)
         ELSE Effects(<<"Could not vote: " \o FormatS(GetItem(json, "err")) \o ".">>,
                      "", <<[option |-> VoteOptions.Up, callback |-> "callback"]>>)

\* The else is missing: the failure line follows the success line.
callback_no_else(json) ==
    LET success == GetItem(json, "success") IN
    IF success.t = "None"
    THEN Effects(<<>>, "AttributeError", <<>>)
    ELSE IF ToString(success) = "True"
         THEN Effects(<<"Voted awesome",
                        "Could not vote: " \o FormatS(GetItem(json, "err")) \o ".">>,
                      "", <<>>)
         ELSE Effects(<<"Could not vote: " \o FormatS(GetItem(json, "err")) \o ".">>,
                      "", <<>>)

\* The result is not looked at.
callback_ignores_result(json) == Effects(<<"Voted awesome">>, "", <<>>)

\* def callback(json):
\*     if json["success"].ToString() == "True": print "Voted awesome"
\*     else: print "Could not vote: %s." % (json["err"])
callback(json) ==
    LET success == GetItem(json, "success") IN
    IF success.t = "None"
    THEN Effects(<<>>, "AttributeError", <<>>)
    ELSE IF ToString(success) = "True"
         THEN Effects(<<"Voted awesome">>, "", <<>>)
         ELSE Effects(<<"Could not vote: " \o FormatS(GetItem(json, "err")) \o ".">>,
                      "", <<>>)

\* Calling a function object by the name it was registered under.
CallHandler(h, b, e) == IF h = "vote" THEN vote(b, e) ELSE Effects(<<>>, "", <<>>)

CallCallback(c, json) == IF c = "callback" THEN callback(json) ELSE Effects(<<>>, "", <<>>)

-----------------------------------------------------------------------------
(* The client.  It is not part of the script: the definitions of this      *)
(* section follow the interface the script consumes.                       *)

NoBot == [live |-> FALSE, userId |-> "", userAuth |-> "", roomId |-> ""]

\* TurntableBot(userId, userAuth, roomId)
TurntableBot(u, a, r) == [live |-> TRUE, userId |-> u, userAuth |-> a, roomId |-> r]

\* Raising NewSongStarted invokes every subscribed handler, in order.
RECURSIVE RaiseEvent(_, _, _)
RaiseEvent(hs, b, e) ==
    IF hs = <<>> THEN <<>>
    ELSE CallHandler(Head(hs), b, e).votes \o RaiseEvent(Tail(hs), b, e)

\* The results the client delivers for a vote: success is a boolean, err is
\* a message that is present on failure and optional on success.
ClientResults ==
    { Result(JBool(TRUE), None),
      Result(JBool(TRUE), JStr("ignored")),
      Result(JBool(FALSE), JStr("already voted")),
      Result(JBool(FALSE), JStr("")) }

\* The request records bot.Vote leaves behind for the calls of event e.
NewRequests(vs, e) ==
    [i \in 1..Len(vs) |->
        [event |-> e, option |-> vs[i].option, callback |-> vs[i].callback,
         answered |-> FALSE]]

-----------------------------------------------------------------------------
(* The script's top level and the client's steps.                          *)

Init ==
    /\ pc = "construct"
    /\ userId = "xxxxxxxxxxxxxxxxxxxxxxxx"
    /\ userAuth = "auth+live+xxxxxxxxxxxxxxxxxxxxxxxxxxxxxxxxxxxxxxxx"
    /\ roomId = "xxxxxxxxxxxxxxxxxxxxxxxx"
    /\ bot = NoBot
    /\ handlers = <<>>
    /\ songs = 0
    /\ notified = 0
    /\ requests = <<>>
    /\ calls = <<>>
    /\ output = <<>>

\* bot = TurntableBot(userId, userAuth, roomId)
Construct ==
    /\ pc = "construct"
    /\ bot' = TurntableBot(userId, userAuth, roomId)
    /\ pc' = "subscribe"
    /\ UNCHANGED <<userId, userAuth, roomId, handlers, songs, notified,
                   requests, calls, output>>

\* bot.NewSongStarted += vote
Subscribe ==
    /\ pc = "subscribe"
    /\ handlers' = Append(handlers, "vote")
    /\ pc' = "run"
    /\ UNCHANGED <<userId, userAuth, roomId, bot, songs, notified,
                   requests, calls, output>>

\* A new song starts in the room: the client raises NewSongStarted.
NewSongStarted ==
    /\ bot.live
    /\ songs < MaxSongs
    /\ songs' = songs + 1
    /\ notified' = notified + Len(handlers)
    /\ requests' = requests \o NewRequests(RaiseEvent(handlers, bot, songs + 1), songs + 1)
    /\ UNCHANGED <<pc, userId, userAuth, roomId, bot, handlers, calls, output>>

\* Applying the effects of callback(json), invoked for request r (0: none).
Deliver(r, json, eff) ==
    /\ calls' = Append(calls, [req |-> r, json |-> json, out |-> eff.out,
                               raised |-> eff.raised])
    /\ output' = output \o eff.out
    /\ requests' = [i \in 1..Len(requests) |->
                        IF i = r THEN [requests[i] EXCEPT !.answered = TRUE]
                        ELSE requests[i]]
                   \o NewRequests(eff.votes, IF r = 0 THEN 0 ELSE requests[r].event)

\* The client answers vote request r: it invokes the request's callback.
VoteResult(r, json) ==
    /\ r \in 1..Len(requests)
    /\ ~requests[r].answered
    /\ Deliver(r, json, CallCallback(requests[r].callback, json))
    /\ UNCHANGED <<pc, userId, userAuth, roomId, bot, handlers, songs, notified>>

Next ==
    \/ Construct
    \/ Subscribe
    \/ NewSongStarted
    \/ \E r \in 1..MaxSongs, json \in ClientResults : VoteResult(r, json)

Spec == Init /\ [][Next]_vars

\* The client eventually answers every vote it was asked to cast.
FairSpec ==
    Spec /\ \A r \in 1..MaxSongs : WF_vars(\E json \in ClientResults : VoteResult(r, json))

-----------------------------------------------------------------------------
(* callback as a function of its argument: the script has finished its top *)
(* level and callback is invoked directly with result objects of every     *)
(* shape, the malformed ones included.                                     *)

SuccessValues ==
    {None, JBool(TRUE), JBool(FALSE), JStr("true"), JStr("True"), JInt(1), JInt(0)}

ErrValues == {None, JStr(""), JStr("already voted"), JStr("Voted awesome")}

AnyResults == {Result(sv, ev) : sv \in SuccessValues, ev \in ErrValues}

InitCallback ==
    /\ pc = "run"
    /\ userId = "xxxxxxxxxxxxxxxxxxxxxxxx"
    /\ userAuth = "auth+live+xxxxxxxxxxxxxxxxxxxxxxxxxxxxxxxxxxxxxxxx"
    /\ roomId = "xxxxxxxxxxxxxxxxxxxxxxxx"
    /\ bot = TurntableBot(userId, userAuth, roomId)
    /\ handlers = <<"vote">>
    /\ songs = 0
    /\ notified = 0
    /\ requests = <<>>
    /\ calls = <<>>
    /\ output = <<>>

\* callback(json), invoked directly.
Invoke(json) ==
    /\ Len(calls) < MaxCalls
    /\ Deliver(0, json, callback(json))
    /\ UNCHANGED <<pc, userId, userAuth, roomId, bot, handlers, songs, notified>>

NextCallback == \E json \in AnyResults : Invoke(json)

CallbackSpec == InitCallback /\ [][NextCallback]_vars

-----------------------------------------------------------------------------
(* Properties.                                                             *)

SuccessLine == "Voted awesome"

FailureLine(m) == "Could not vote: " \o m \o "."

\* Text s contains text m.
Contains(s, m) ==
    \E i \in 1..(Len(s) + 1) :
        /\ i + Len(m) - 1 <= Len(s)
        /\ SubSeq(s, i, i + Len(m) - 1) = m

\* The invocations of callback made for request r.
CallsFor(r) == {i \in 1..Len(calls) : calls[i].req = r}

\* The requests issued for new-song occurrence e.
RequestsFor(e) == {i \in 1..Len(requests) : requests[i].event = e}

\* What bot.Vote was asked, without the client's bookkeeping.
Issued(rs) == [i \in 1..Len(rs) |-> [event |-> rs[i].event, option |-> rs[i].option,
                                      callback |-> rs[i].callback]]

\* C1: every notification handled by vote issues exactly one vote request,
\* always with the Up option: after n notifications there are exactly n
\* requests, no new-song occurrence has two, and none is a Down vote.
C1_OneUpVotePerNotification ==
    /\ Len(requests) = notified
    /\ \A e \in 1..MaxSongs : Cardinality(RequestsFor(e)) <= 1
    /\ \A i \in 1..Len(requests) :
          /\ requests[i].option = "Up"
          /\ requests[i].callback = "callback"

C1_Witness ==
    /\ notified = 2
    /\ Len(requests) = 2
    /\ requests[1].option = "Up" /\ requests[2].option = "Up"

\* C2: a result whose success indicator is true makes callback print exactly
\* one line, the success message, whether or not the result carries an err.
C2_SuccessPrintsAwesome ==
    \A i \in 1..Len(calls) :
        calls[i].json.success = JBool(TRUE)
            => /\ calls[i].out = <<"Voted awesome">>
               /\ calls[i].raised = ""

C2_Witness ==
    /\ \E i \in 1..Len(calls) :
          /\ calls[i].json = Result(JBool(TRUE), JStr("already voted"))
          /\ calls[i].out = <<"Voted awesome">>
    /\ \E i \in 1..Len(calls) :
          /\ calls[i].json = Result(JBool(TRUE), None)
          /\ calls[i].out = <<"Voted awesome">>

\* C3: a result whose success indicator is false and whose err is a
\* non-empty message M makes callback print exactly one line, which is
\* "Could not vote: M." and so contains M; the success message is not printed.
C3_FailurePrintsMessage ==
    \A i \in 1..Len(calls) :
        LET json == calls[i].json IN
        (json.success = JBool(FALSE) /\ json.err.t = "str" /\ json.err.s # "")
            => /\ Len(calls[i].out) = 1
               /\ Contains(calls[i].out[1], json.err.s)
               /\ calls[i].out[1] = FailureLine(json.err.s)
               /\ calls[i].out[1] # SuccessLine

C3_Witness ==
    \E i \in 1..Len(calls) :
        /\ calls[i].json = Result(JBool(FALSE), JStr("already voted"))
        /\ calls[i].out = <<"Could not vote: already voted.">>
        /\ output[i] = "Could not vote: already voted."

\* The line that reports result json: the success message for a true
\* indicator, the failure line with the result's err otherwise.
Reports(line, json) ==
    IF json.success = JBool(TRUE) THEN line = SuccessLine
    ELSE /\ json.err.t = "str"
         /\ line = FailureLine(json.err.s)
         /\ line # SuccessLine

\* Request r has been answered by exactly one invocation of callback, which
\* printed exactly one line: the success line or a failure line.
Completed(r) ==
    /\ Cardinality(CallsFor(r)) = 1
    /\ \A i \in CallsFor(r) :
          /\ calls[i].raised = ""
          /\ Len(calls[i].out) = 1
          /\ Reports(calls[i].out[1], calls[i].json)

\* C4: a new-song occurrence has at most one vote request, a request's
\* callback is never invoked twice and never prints more than one line, and,
\* the client answering every vote, every issued request is eventually
\* completed by exactly one invocation of callback and one output line.
C4_EveryVoteCompletesOnce ==
    /\ [](\A e \in 1..MaxSongs : Cardinality(RequestsFor(e)) <= 1)
    /\ [](\A r \in 1..MaxSongs :
            /\ Cardinality(CallsFor(r)) <= 1
            /\ \A i \in CallsFor(r) : Len(calls[i].out) = 1)
    /\ [](Len(output) = Len(calls))
    /\ \A r \in 1..MaxSongs : (Len(requests) >= r) ~> Completed(r)

C4_Witness ==
    /\ Len(requests) = 2
    /\ Completed(1)
    /\ Completed(2)
    /\ calls[1].out = <<SuccessLine>>
    /\ calls[2].out # <<SuccessLine>>
    /\ Len(output) = 2

\* C5: with vote requests outstanding at the same time and answered in any
\* order, there is one request per notification, one output line per
\* answered request, and every line reports the result of the request whose
\* answer printed it; once two requests are answered there are two lines.
C5_LinesMatchTheirResults ==
    /\ Len(requests) = notified
    /\ Len(output) = Len(calls)
    /\ Len(calls) = Cardinality({r \in 1..Len(requests) : requests[r].answered})
    /\ \A i \in 1..Len(calls) :
          /\ calls[i].req \in 1..Len(requests)
          /\ requests[calls[i].req].answered
          /\ CallsFor(calls[i].req) = {i}
          /\ i <= Len(output)
          /\ Reports(output[i], calls[i].json)

\* Two requests were outstanding together; the second was answered first,
\* with a failure, and the first then succeeded.
C5_Witness ==
    /\ notified = 2
    /\ Len(requests) = 2
    /\ Len(calls) = 2
    /\ calls[1].req = 2 /\ calls[1].json = Result(JBool(FALSE), JStr("already voted"))
    /\ calls[2].req = 1 /\ calls[2].json = Result(JBool(TRUE), None)
    /\ output = <<"Could not vote: already voted.", "Voted awesome">>

\* C6: a step that handles a vote result prints exactly one line and leaves
\* the issued requests, the credentials, the bot handle and the subscription
\* as they were; a step that issues a vote request is a new-song step.
C6_CallbackOnlyPrints ==
    [][ /\ (calls' # calls) =>
            /\ Len(calls') = Len(calls) + 1
            /\ Len(output') = Len(output) + 1
            /\ Issued(requests') = Issued(requests)
            /\ UNCHANGED <<userId, userAuth, roomId, bot, handlers>>
        /\ (Len(requests') > Len(requests)) =>
            /\ songs' = songs + 1
            /\ calls' = calls
      ]_vars

\* A rejected vote has been reported and nothing is outstanding.
C6_Witness ==
    /\ Len(requests) = 1
    /\ requests[1].answered
    /\ calls = <<[req |-> 1, json |-> Result(JBool(FALSE), JStr("already voted")),
                  out |-> <<"Could not vote: already voted.">>, raised |-> ""]>>
    /\ output = <<"Could not vote: already voted.">>

\* A result is well formed when success is a boolean and err is a string.
WellFormed(json) == json.success.t = "bool" /\ json.err.t = "str"

\* C7: for a well-formed result callback completes normally and has printed
\* exactly one line.
C7_WellFormedNeverRaises ==
    \A i \in 1..Len(calls) :
        WellFormed(calls[i].json)
            => /\ calls[i].raised = ""
               /\ Len(calls[i].out) = 1

C7_Witness ==
    \E i \in 1..Len(calls) :
        /\ calls[i].json = Result(JBool(FALSE), JStr(""))
        /\ calls[i].raised = ""
        /\ calls[i].out = <<"Could not vote: .">>

\* C8: callback does not end with an unhandled error for a result without a
\* success field, nor for a failed result without an err field.
C8_GuardsMissingFields ==
    \A i \in 1..Len(calls) :
        LET json == calls[i].json IN
        (json.success.t = "None" \/ (json.success = JBool(FALSE) /\ json.err.t = "None"))
            => calls[i].raised = ""

\* C9: the success line is printed exactly when the text form of a present
\* success indicator is "True"; every other present value, false and the
\* truthy "true" and 1 among them, prints the failure line with the err.
C9_BranchOnTextTrue ==
    \A i \in 1..Len(calls) :
        LET json == calls[i].json IN
        json.success.t # "None"
            => /\ (calls[i].out = <<SuccessLine>>)
                      <=> (json.success \in {JBool(TRUE), JStr("True")})
               /\ (json.success \in {JBool(FALSE), JStr("true"), JInt(1), JInt(0)})
                      => calls[i].out = <<FailureLine(FormatS(json.err))>>

C9_Witness ==
    /\ Len(calls) = 2
    /\ calls[1].json = Result(JStr("true"), JStr("already voted"))
    /\ calls[1].out = <<"Could not vote: already voted.">>
    /\ calls[2].json = Result(JInt(1), JStr(""))
    /\ calls[2].out = <<"Could not vote: .">>

\* C10: lines printed <= vote requests issued <= notifications delivered <=
\* new-song occurrences; nothing is requested or printed before the handler
\* is subscribed, and every line belongs to an answered request.
C10_LinesRequestsNotifications ==
    /\ Len(output) <= Len(requests)
    /\ Len(requests) <= notified
    /\ notified <= songs
    /\ (pc # "run") => (requests = <<>> /\ notified = 0 /\ output = <<>>)
    /\ Len(output) = Cardinality({r \in 1..Len(requests) : requests[r].answered})

\* A song started before the subscription and two after it; one of the two
\* votes has been answered.
C10_Witness ==
    /\ songs = 3
    /\ notified = 2
    /\ Len(requests) = 2
    /\ Len(output) = 1

=============================================================================
